---- MODULE Spec2Model ----
(***************************************************************************)
(* A model of osi/src/hash_map.c: a hash map with separate chaining, a     *)
(* fixed bucket array with lazily allocated chains, caller supplied hash,  *)
(* equality and cleanup hooks, and an injected allocator that may fail.    *)
(***************************************************************************)
EXTENDS Integers, Sequences, FiniteSets, TLC

\* Bounds of the model.
MaxKey == 2        \* key references are 1..MaxKey
MaxData == 2       \* data references are 1..MaxData
MaxRec == 2        \* entry records the allocator can have outstanding
MaxBucket == 2     \* num_bucket is chosen in 1..MaxBucket
MaxHashSize == 2   \* cap on the live-entry counter

NULL == 0

Keys == 1..MaxKey
Data == 1..MaxData
Recs == 1..MaxRec

VARIABLES
  bucket,          \* hash_map->bucket: index -> [list |-> list_t*]
  num_bucket,      \* hash_map->num_bucket
  hash_size,       \* hash_map->hash_size
  hash_fn,         \* hash_map->hash_fn (which caller function)
  key_fn,          \* hash_map->key_fn configured (TRUE) or NULL (FALSE)
  data_fn,         \* hash_map->data_fn configured (TRUE) or NULL (FALSE)
  keys_are_equal,  \* hash_map->keys_are_equal (which predicate)
  allocated,       \* entry records obtained from the allocator, not released
  live,            \* FALSE once hash_map_free has released the map
  last,            \* the call that has just returned: its arguments, result
                   \* and the calls it made; NoCall between calls
  inserted         \* keys stored by a run of successful distinct-key sets

vars == <<bucket, num_bucket, hash_size, hash_fn, key_fn, data_fn,
          keys_are_equal, allocated, live, last, inserted>>

config == <<num_bucket, hash_fn, key_fn, data_fn, keys_are_equal>>

(***************************************************************************)
(* Caller supplied functions. Two key references k and k' are value-equal  *)
(* when KeyValue agrees on them: 1,2 hold one value, 3,4 the next, ...     *)
(***************************************************************************)
KeyValue(k) == (k + 1) \div 2

pointer_hash(key) == key
value_hash(key) == KeyValue(key)
value_equality(x, y) == KeyValue(x) = KeyValue(y)

\* default_key_equality comparing what the references hold.
default_key_equality_by_value(x, y) == KeyValue(x) = KeyValue(y)

default_key_equality(x, y) == x = y

HashFn(key) ==
  IF hash_fn = "pointer_hash" THEN pointer_hash(key) ELSE value_hash(key)

KeysAreEqual(x, y) ==
  IF keys_are_equal = "default_key_equality"
  THEN default_key_equality(x, y)
  ELSE value_equality(x, y)

(***************************************************************************)
(* Pointers: a list_t* is NoList (NULL) or a list holding elems; a         *)
(* hash_map_entry_t* is NoEntry (NULL) or an entry record rec.             *)
(***************************************************************************)
NoList == [null |-> TRUE, elems |-> <<>>]
NoEntry == [key |-> NULL, data |-> NULL, rec |-> NULL]

Call(fn, arg, rec) == [fn |-> fn, arg |-> arg, rec |-> rec]

\* allocator->alloc(sizeof(hash_map_entry_t)): NULL when it fails, which it
\* must when no record is left.
alloc(outstanding, ok) ==
  IF ok /\ (Recs \ outstanding) # {}
  THEN CHOOSE r \in Recs \ outstanding : \A q \in Recs \ outstanding : r <= q
  ELSE NULL

Released(calls) == {calls[i].rec : i \in {j \in DOMAIN calls : calls[j].fn = "free"}}

\* bucket_free_ without the data hook.
bucket_free_skip_data_(hash_map_entry) ==
  (IF key_fn THEN <<Call("key_fn", hash_map_entry.key, hash_map_entry.rec)>> ELSE <<>>)
  \o <<Call("free", hash_map_entry.rec, hash_map_entry.rec)>>

\* bucket_free_ calling the data hook before the key hook.
bucket_free_data_first_(hash_map_entry) ==
  (IF data_fn THEN <<Call("data_fn", hash_map_entry.data, hash_map_entry.rec)>> ELSE <<>>)
  \o (IF key_fn THEN <<Call("key_fn", hash_map_entry.key, hash_map_entry.rec)>> ELSE <<>>)
  \o <<Call("free", hash_map_entry.rec, hash_map_entry.rec)>>

bucket_free_(hash_map_entry) ==
  (IF key_fn THEN <<Call("key_fn", hash_map_entry.key, hash_map_entry.rec)>> ELSE <<>>)
  \o (IF data_fn THEN <<Call("data_fn", hash_map_entry.data, hash_map_entry.rec)>> ELSE <<>>)
  \o <<Call("free", hash_map_entry.rec, hash_map_entry.rec)>>

RECURSIVE find_from(_, _, _)
find_from(elems, i, key) ==
  IF i > Len(elems) THEN NoEntry
  ELSE IF KeysAreEqual(elems[i].key, key) THEN elems[i]
  ELSE find_from(elems, i + 1, key)

\* find_bucket_entry_ looking at the head of the chain only.
find_bucket_entry_head_only_(hash_bucket_list, key) ==
  IF hash_bucket_list = NoList \/ hash_bucket_list.elems = <<>> THEN NoEntry
  ELSE IF KeysAreEqual(hash_bucket_list.elems[1].key, key)
       THEN hash_bucket_list.elems[1]
       ELSE NoEntry

\* find_bucket_entry_ without the equality test.
find_bucket_entry_any_key_(hash_bucket_list, key) ==
  IF hash_bucket_list = NoList \/ hash_bucket_list.elems = <<>> THEN NoEntry
  ELSE hash_bucket_list.elems[1]

find_bucket_entry_(hash_bucket_list, key) ==
  IF hash_bucket_list = NoList THEN NoEntry
  ELSE find_from(hash_bucket_list.elems, 1, key)

(***************************************************************************)
(* The chained-list primitive (list.c), from its contract.                 *)
(***************************************************************************)
list_new_internal(ok) ==
  IF ok THEN [null |-> FALSE, elems |-> <<>>] ELSE NoList

list_append(list, data, ok) ==
  IF ok THEN [ok |-> TRUE, list |-> [list EXCEPT !.elems = Append(@, data)]]
  ELSE [ok |-> FALSE, list |-> list]

RECURSIVE index_of(_, _, _)
index_of(elems, i, data) ==
  IF i > Len(elems) THEN 0
  ELSE IF elems[i].rec = data.rec THEN i
  ELSE index_of(elems, i + 1, data)

list_remove(list, data) ==
  LET i == index_of(list.elems, 1, data) IN
  IF i = 0 THEN [ok |-> FALSE, list |-> list, calls |-> <<>>]
  ELSE [ok |-> TRUE,
        list |-> [list EXCEPT !.elems =
                    SubSeq(list.elems, 1, i - 1) \o SubSeq(list.elems, i + 1, Len(list.elems))],
        calls |-> bucket_free_(list.elems[i])]

RECURSIVE list_free(_)
list_free(list) ==
  IF list.elems = <<>> THEN <<>>
  ELSE bucket_free_(Head(list.elems)) \o list_free([list EXCEPT !.elems = Tail(@)])

(***************************************************************************)
(* Observers.                                                              *)
(***************************************************************************)
hash_map_is_empty == hash_size = 0
hash_map_size == hash_size
hash_map_num_buckets == num_bucket

hash_map_has_key(key) ==
  LET hash_key == HashFn(key) % num_bucket
      hash_bucket_list == bucket[hash_key].list
  IN  find_bucket_entry_(hash_bucket_list, key) # NoEntry

hash_map_get(key) ==
  LET hash_key == HashFn(key) % num_bucket
      hash_bucket_list == bucket[hash_key].list
      hash_map_entry == find_bucket_entry_(hash_bucket_list, key)
  IN  IF hash_map_entry # NoEntry THEN hash_map_entry.data ELSE NULL

\* No call is in progress or has just returned.
NoCall == [op |-> "none", key |-> NULL, data |-> NULL, ret |-> TRUE,
           fail |-> "none", calls |-> <<>>]

Return(op, key, data, ret, fail, calls) ==
  last' = [op |-> op, key |-> key, data |-> data, ret |-> ret,
           fail |-> fail, calls |-> calls]

(***************************************************************************)
(* hash_map_new_internal, both allocations succeeding. The hash function   *)
(* and the equality predicate agree: equal keys hash alike.                *)
(***************************************************************************)
Init ==
  /\ num_bucket \in 1..MaxBucket
  /\ \E equality_fn \in {"NULL", "value_equality"} :
       keys_are_equal = IF equality_fn = "NULL" THEN "default_key_equality"
                        ELSE equality_fn
  /\ hash_fn \in {"pointer_hash", "value_hash"}
  /\ keys_are_equal = "value_equality" => hash_fn = "value_hash"
  /\ key_fn \in BOOLEAN
  /\ data_fn \in BOOLEAN
  /\ bucket = [i \in 0..(num_bucket - 1) |-> [list |-> NoList]]
  /\ hash_size = 0
  /\ allocated = {}
  /\ live = TRUE
  /\ inserted = {}
  /\ last = NoCall

(***************************************************************************)
(* hash_map_set. list_ok, entry_ok and node_ok say whether the allocation  *)
(* of the chain, of the entry record and of the chain's node succeed.      *)
(***************************************************************************)
\* hash_map_set appending without removing the entry it found.
hash_map_set_no_remove(key, data, list_ok, entry_ok, node_ok) ==
  LET hash_key == HashFn(key) % num_bucket
      hash_bucket_list ==
        IF bucket[hash_key].list = NoList THEN list_new_internal(list_ok)
        ELSE bucket[hash_key].list
  IN
  /\ live
  /\ IF hash_bucket_list = NoList
     THEN /\ Return("set", key, data, FALSE, "list_new", <<>>)
          /\ UNCHANGED <<bucket, hash_size, allocated>>
     ELSE LET found == find_bucket_entry_(hash_bucket_list, key)
              counted == IF found # NoEntry THEN hash_size ELSE hash_size + 1
              rec == alloc(allocated, entry_ok)
              hash_map_entry == [key |-> key, data |-> data, rec |-> rec]
              appended == list_append(hash_bucket_list, hash_map_entry, node_ok)
          IN  IF rec = NULL
              THEN /\ bucket' = [bucket EXCEPT ![hash_key].list = hash_bucket_list]
                   /\ hash_size' = counted
                   /\ allocated' = allocated
                   /\ Return("set", key, data, FALSE, "alloc",
                             <<Call("alloc", NULL, NULL)>>)
              ELSE /\ bucket' = [bucket EXCEPT ![hash_key].list = appended.list]
                   /\ hash_size' = counted
                   /\ allocated' = allocated \cup {rec}
                   /\ Return("set", key, data, appended.ok,
                             IF appended.ok THEN "none" ELSE "list_append",
                             <<Call("alloc", rec, rec)>>)
  /\ UNCHANGED <<config, live>>

\* hash_map_set returning true whatever list_append returned.
hash_map_set_ignore_append(key, data, list_ok, entry_ok, node_ok) ==
  LET hash_key == HashFn(key) % num_bucket
      hash_bucket_list ==
        IF bucket[hash_key].list = NoList THEN list_new_internal(list_ok)
        ELSE bucket[hash_key].list
  IN
  /\ live
  /\ IF hash_bucket_list = NoList
     THEN /\ Return("set", key, data, FALSE, "list_new", <<>>)
          /\ UNCHANGED <<bucket, hash_size, allocated>>
     ELSE LET found == find_bucket_entry_(hash_bucket_list, key)
              removed ==
                IF found # NoEntry THEN list_remove(hash_bucket_list, found)
                ELSE [ok |-> TRUE, list |-> hash_bucket_list, calls |-> <<>>]
              counted == IF found # NoEntry THEN hash_size ELSE hash_size + 1
              outstanding == allocated \ Released(removed.calls)
              rec == alloc(outstanding, entry_ok)
              hash_map_entry == [key |-> key, data |-> data, rec |-> rec]
              appended == list_append(removed.list, hash_map_entry, node_ok)
          IN  IF rec = NULL
              THEN /\ bucket' = [bucket EXCEPT ![hash_key].list = removed.list]
                   /\ hash_size' = counted
                   /\ allocated' = outstanding
                   /\ Return("set", key, data, FALSE, "alloc",
                             removed.calls \o <<Call("alloc", NULL, NULL)>>)
              ELSE /\ bucket' = [bucket EXCEPT ![hash_key].list = appended.list]
                   /\ hash_size' = counted
                   /\ allocated' = outstanding \cup {rec}
                   /\ Return("set", key, data, TRUE,
                             IF appended.ok THEN "none" ELSE "list_append",
                             removed.calls \o <<Call("alloc", rec, rec)>>)
  /\ UNCHANGED <<config, live>>

\* hash_map_set counting the entry when it replaces one instead of when it
\* adds one.
hash_map_set_count_replaced(key, data, list_ok, entry_ok, node_ok) ==
  LET hash_key == HashFn(key) % num_bucket
      hash_bucket_list ==
        IF bucket[hash_key].list = NoList THEN list_new_internal(list_ok)
        ELSE bucket[hash_key].list
  IN
  /\ live
  /\ IF hash_bucket_list = NoList
     THEN /\ Return("set", key, data, FALSE, "list_new", <<>>)
          /\ UNCHANGED <<bucket, hash_size, allocated>>
     ELSE LET found == find_bucket_entry_(hash_bucket_list, key)
              removed ==
                IF found # NoEntry THEN list_remove(hash_bucket_list, found)
                ELSE [ok |-> TRUE, list |-> hash_bucket_list, calls |-> <<>>]
              counted == IF found # NoEntry THEN hash_size + 1 ELSE hash_size
              outstanding == allocated \ Released(removed.calls)
              rec == alloc(outstanding, entry_ok)
              hash_map_entry == [key |-> key, data |-> data, rec |-> rec]
              appended == list_append(removed.list, hash_map_entry, node_ok)
          IN  IF rec = NULL
              THEN /\ bucket' = [bucket EXCEPT ![hash_key].list = removed.list]
                   /\ hash_size' = counted
                   /\ allocated' = outstanding
                   /\ Return("set", key, data, FALSE, "alloc",
                             removed.calls \o <<Call("alloc", NULL, NULL)>>)
              ELSE /\ bucket' = [bucket EXCEPT ![hash_key].list = appended.list]
                   /\ hash_size' = counted
                   /\ allocated' = outstanding \cup {rec}
                   /\ Return("set", key, data, appended.ok,
                             IF appended.ok THEN "none" ELSE "list_append",
                             removed.calls \o <<Call("alloc", rec, rec)>>)
  /\ UNCHANGED <<config, live>>

\* hash_map_set counting the entry before it has a chain to put it in.
hash_map_set_count_first(key, data, list_ok, entry_ok, node_ok) ==
  LET hash_key == HashFn(key) % num_bucket
      hash_bucket_list ==
        IF bucket[hash_key].list = NoList THEN list_new_internal(list_ok)
        ELSE bucket[hash_key].list
      found == find_bucket_entry_(bucket[hash_key].list, key)
      counted == IF found # NoEntry THEN hash_size ELSE hash_size + 1
  IN
  /\ live
  /\ IF hash_bucket_list = NoList
     THEN /\ Return("set", key, data, FALSE, "list_new", <<>>)
          /\ hash_size' = counted
          /\ UNCHANGED <<bucket, allocated>>
     ELSE LET removed ==
                IF found # NoEntry THEN list_remove(hash_bucket_list, found)
                ELSE [ok |-> TRUE, list |-> hash_bucket_list, calls |-> <<>>]
              outstanding == allocated \ Released(removed.calls)
              rec == alloc(outstanding, entry_ok)
              hash_map_entry == [key |-> key, data |-> data, rec |-> rec]
              appended == list_append(removed.list, hash_map_entry, node_ok)
          IN  IF rec = NULL
              THEN /\ bucket' = [bucket EXCEPT ![hash_key].list = removed.list]
                   /\ hash_size' = counted
                   /\ allocated' = outstanding
                   /\ Return("set", key, data, FALSE, "alloc",
                             removed.calls \o <<Call("alloc", NULL, NULL)>>)
              ELSE /\ bucket' = [bucket EXCEPT ![hash_key].list = appended.list]
                   /\ hash_size' = counted
                   /\ allocated' = outstanding \cup {rec}
                   /\ Return("set", key, data, appended.ok,
                             IF appended.ok THEN "none" ELSE "list_append",
                             removed.calls \o <<Call("alloc", rec, rec)>>)
  /\ UNCHANGED <<config, live>>

hash_map_set(key, data, list_ok, entry_ok, node_ok) ==
  LET hash_key == HashFn(key) % num_bucket
      hash_bucket_list ==
        IF bucket[hash_key].list = NoList THEN list_new_internal(list_ok)
        ELSE bucket[hash_key].list
  IN
  /\ live
  /\ IF hash_bucket_list = NoList
     THEN /\ Return("set", key, data, FALSE, "list_new", <<>>)
          /\ UNCHANGED <<bucket, hash_size, allocated>>
     ELSE LET found == find_bucket_entry_(hash_bucket_list, key)
              removed ==
                IF found # NoEntry THEN list_remove(hash_bucket_list, found)
                ELSE [ok |-> TRUE, list |-> hash_bucket_list, calls |-> <<>>]
              counted == IF found # NoEntry THEN hash_size ELSE hash_size + 1
              outstanding == allocated \ Released(removed.calls)
              rec == alloc(outstanding, entry_ok)
              hash_map_entry == [key |-> key, data |-> data, rec |-> rec]
              appended == list_append(removed.list, hash_map_entry, node_ok)
          IN  IF rec = NULL
              THEN /\ bucket' = [bucket EXCEPT ![hash_key].list = removed.list]
                   /\ hash_size' = counted
                   /\ allocated' = outstanding
                   /\ Return("set", key, data, FALSE, "alloc",
                             removed.calls \o <<Call("alloc", NULL, NULL)>>)
              ELSE /\ bucket' = [bucket EXCEPT ![hash_key].list = appended.list]
                   /\ hash_size' = counted
                   /\ allocated' = outstanding \cup {rec}
                   /\ Return("set", key, data, appended.ok,
                             IF appended.ok THEN "none" ELSE "list_append",
                             removed.calls \o <<Call("alloc", rec, rec)>>)
  /\ UNCHANGED <<config, live>>

(***************************************************************************)
(* hash_map_erase.                                                         *)
(***************************************************************************)
\* hash_map_erase removing the head of the chain the key was found in.
hash_map_erase_head(key) ==
  LET hash_key == HashFn(key) % num_bucket
      hash_bucket_list == bucket[hash_key].list
      hash_map_entry == find_bucket_entry_(hash_bucket_list, key)
      removed == list_remove(hash_bucket_list, Head(hash_bucket_list.elems))
  IN
  /\ live
  /\ IF hash_map_entry = NoEntry
     THEN /\ Return("erase", key, NULL, FALSE, "none", <<>>)
          /\ UNCHANGED <<bucket, hash_size, allocated>>
     ELSE /\ hash_size' = hash_size - 1
          /\ bucket' = [bucket EXCEPT ![hash_key].list = removed.list]
          /\ allocated' = allocated \ Released(removed.calls)
          /\ Return("erase", key, NULL, removed.ok, "none", removed.calls)
  /\ UNCHANGED <<config, live>>

\* hash_map_erase forgetting the counter.
hash_map_erase_no_decrement(key) ==
  LET hash_key == HashFn(key) % num_bucket
      hash_bucket_list == bucket[hash_key].list
      hash_map_entry == find_bucket_entry_(hash_bucket_list, key)
      removed == list_remove(hash_bucket_list, hash_map_entry)
  IN
  /\ live
  /\ IF hash_map_entry = NoEntry
     THEN /\ Return("erase", key, NULL, FALSE, "none", <<>>)
          /\ UNCHANGED <<bucket, hash_size, allocated>>
     ELSE /\ hash_size' = hash_size
          /\ bucket' = [bucket EXCEPT ![hash_key].list = removed.list]
          /\ allocated' = allocated \ Released(removed.calls)
          /\ Return("erase", key, NULL, removed.ok, "none", removed.calls)
  /\ UNCHANGED <<config, live>>

\* hash_map_erase decrementing before it knows the key was found.
hash_map_erase_decrement_first(key) ==
  LET hash_key == HashFn(key) % num_bucket
      hash_bucket_list == bucket[hash_key].list
      hash_map_entry == find_bucket_entry_(hash_bucket_list, key)
      removed == list_remove(hash_bucket_list, hash_map_entry)
  IN
  /\ live
  /\ hash_size' = hash_size - 1
  /\ IF hash_map_entry = NoEntry
     THEN /\ Return("erase", key, NULL, FALSE, "none", <<>>)
          /\ UNCHANGED <<bucket, allocated>>
     ELSE /\ bucket' = [bucket EXCEPT ![hash_key].list = removed.list]
          /\ allocated' = allocated \ Released(removed.calls)
          /\ Return("erase", key, NULL, removed.ok, "none", removed.calls)
  /\ UNCHANGED <<config, live>>

hash_map_erase(key) ==
  LET hash_key == HashFn(key) % num_bucket
      hash_bucket_list == bucket[hash_key].list
      hash_map_entry == find_bucket_entry_(hash_bucket_list, key)
      removed == list_remove(hash_bucket_list, hash_map_entry)
  IN
  /\ live
  /\ IF hash_map_entry = NoEntry
     THEN /\ Return("erase", key, NULL, FALSE, "none", <<>>)
          /\ UNCHANGED <<bucket, hash_size, allocated>>
     ELSE /\ hash_size' = hash_size - 1
          /\ bucket' = [bucket EXCEPT ![hash_key].list = removed.list]
          /\ allocated' = allocated \ Released(removed.calls)
          /\ Return("erase", key, NULL, removed.ok, "none", removed.calls)
  /\ UNCHANGED <<config, live>>

(***************************************************************************)
(* hash_map_clear: the loop over the buckets, from bucket i on.            *)
(***************************************************************************)
\* The loop leaving at the first bucket without a chain instead of going on.
RECURSIVE clear_loop_break(_, _, _)
clear_loop_break(i, b, calls) ==
  IF i >= num_bucket THEN [bucket |-> b, calls |-> calls]
  ELSE IF b[i].list = NoList THEN [bucket |-> b, calls |-> calls]
  ELSE clear_loop_break(i + 1, [b EXCEPT ![i].list = NoList],
                        calls \o list_free(b[i].list))

RECURSIVE clear_loop(_, _, _)
clear_loop(i, b, calls) ==
  IF i >= num_bucket THEN [bucket |-> b, calls |-> calls]
  ELSE IF b[i].list = NoList THEN clear_loop(i + 1, b, calls)
  ELSE clear_loop(i + 1, [b EXCEPT ![i].list = NoList],
                  calls \o list_free(b[i].list))

hash_map_clear ==
  LET cleared == clear_loop(0, bucket, <<>>) IN
  /\ live
  /\ bucket' = cleared.bucket
  /\ allocated' = allocated \ Released(cleared.calls)
  /\ Return("clear", NULL, NULL, TRUE, "none", cleared.calls)
  /\ UNCHANGED <<hash_size, config, live>>

(***************************************************************************)
(* hash_map_free: clears, then releases the bucket array and the map.      *)
(***************************************************************************)
hash_map_free ==
  LET cleared == clear_loop(0, bucket, <<>>) IN
  /\ live
  /\ bucket' = cleared.bucket
  /\ allocated' = allocated \ Released(cleared.calls)
  /\ live' = FALSE
  /\ Return("free", NULL, NULL, TRUE, "none", cleared.calls)
  /\ UNCHANGED <<hash_size, config>>

(***************************************************************************)
(* hash_map_foreach. The caller's callback returns false on the entry      *)
(* whose key is stop_key and true on every other (stop_key NULL: always    *)
(* true). The result is the calls made to the callback, in order.          *)
(***************************************************************************)
callback(hash_map_entry, stop_key) == hash_map_entry.key # stop_key

\* The loop leaving at the first bucket without a chain instead of going on.
RECURSIVE foreach_loop_return_on_null(_, _, _, _)
foreach_loop_return_on_null(i, n, stop_key, calls) ==
  IF i >= num_bucket THEN calls
  ELSE IF bucket[i].list = NoList THEN calls
  ELSE IF n > Len(bucket[i].list.elems)
       THEN foreach_loop_return_on_null(i + 1, 1, stop_key, calls)
  ELSE LET hash_map_entry == bucket[i].list.elems[n]
           visited == Append(calls, Call("callback", hash_map_entry.key,
                                         hash_map_entry.rec))
       IN  IF ~callback(hash_map_entry, stop_key) THEN visited
           ELSE foreach_loop_return_on_null(i, n + 1, stop_key, visited)

\* The loops over the buckets and over a bucket's chain, from entry n of
\* bucket i on.
RECURSIVE foreach_loop(_, _, _, _)
foreach_loop(i, n, stop_key, calls) ==
  IF i >= num_bucket THEN calls
  ELSE IF bucket[i].list = NoList THEN foreach_loop(i + 1, 1, stop_key, calls)
  ELSE IF n > Len(bucket[i].list.elems)
       THEN foreach_loop(i + 1, 1, stop_key, calls)
  ELSE LET hash_map_entry == bucket[i].list.elems[n]
           visited == Append(calls, Call("callback", hash_map_entry.key,
                                         hash_map_entry.rec))
       IN  IF ~callback(hash_map_entry, stop_key) THEN visited
           ELSE foreach_loop(i, n + 1, stop_key, visited)

\* In the call's record, key is stop_key.
hash_map_foreach(stop_key) ==
  /\ live
  /\ Return("foreach", stop_key, NULL, TRUE, "none",
            foreach_loop(0, 1, stop_key, <<>>))
  /\ UNCHANGED <<bucket, hash_size, allocated, config, live>>

(***************************************************************************)
(* The callers: one call at a time, each made once the one before has been *)
(* returned from. The counter is capped: a set that would count a new      *)
(* entry is made only below MaxHashSize.                                   *)
(***************************************************************************)
\* The allocation of a call that fails, if any: a call returns at the first.
FailAt == {"none", "list_new", "alloc", "list_append"}

SetCall ==
  \E key \in Keys, data \in Data, fail_at \in FailAt :
    /\ last = NoCall
    /\ hash_map_has_key(key) \/ hash_size < MaxHashSize
    /\ hash_map_set(key, data, fail_at # "list_new", fail_at # "alloc",
                    fail_at # "list_append")
    /\ UNCHANGED inserted

EraseCall ==
  \E key \in Keys :
    /\ last = NoCall
    /\ hash_map_erase(key)
    /\ UNCHANGED inserted

ClearCall == last = NoCall /\ hash_map_clear /\ UNCHANGED inserted

FreeCall == last = NoCall /\ hash_map_free /\ UNCHANGED inserted

\* The caller has taken the result of the call.
Returned ==
  /\ last # NoCall
  /\ last' = NoCall
  /\ UNCHANGED <<bucket, hash_size, allocated, live, config, inserted>>

Next == SetCall \/ EraseCall \/ ClearCall \/ FreeCall \/ Returned

Spec == Init /\ [][Next]_vars

\* Only successful sets, each of a key equal to none set before.
SetDistinct ==
  \E key \in Keys, data \in Data, fail_at \in FailAt :
    /\ \A k \in inserted : ~KeysAreEqual(k, key)
    /\ hash_map_set(key, data, fail_at # "list_new", fail_at # "alloc",
                    fail_at # "list_append")
    /\ last'.ret
    /\ inserted' = inserted \cup {key}

SpecDistinctSets == Init /\ [][SetDistinct]_vars

\* hash_map_get giving the bucket a chain when it has none, as set does.
GetCallCreatingChain ==
  \E key \in Keys :
    /\ last = NoCall
    /\ live
    /\ Return("get", key, hash_map_get(key), TRUE, "none", <<>>)
    /\ bucket' = [bucket EXCEPT ![HashFn(key) % num_bucket].list =
                    IF @ = NoList THEN list_new_internal(TRUE) ELSE @]
    /\ UNCHANGED <<hash_size, allocated, config, live, inserted>>

\* hash_map_get and hash_map_has_key as calls: data is what get returned, ret
\* what has_key returned.
GetCall ==
  \E key \in Keys :
    /\ last = NoCall
    /\ live
    /\ Return("get", key, hash_map_get(key), TRUE, "none", <<>>)
    /\ UNCHANGED <<bucket, hash_size, allocated, config, live, inserted>>

HasKeyCall ==
  \E key \in Keys :
    /\ last = NoCall
    /\ live
    /\ Return("has_key", key, NULL, hash_map_has_key(key), "none", <<>>)
    /\ UNCHANGED <<bucket, hash_size, allocated, config, live, inserted>>

NextLookup == Next \/ GetCall \/ HasKeyCall

SpecLookup == Init /\ [][NextLookup]_vars

\* The callers, iterating as well.
ForeachCall ==
  \E stop_key \in Keys \cup {NULL} :
    /\ last = NoCall
    /\ hash_map_foreach(stop_key)
    /\ UNCHANGED inserted

NextForeach == Next \/ ForeachCall

SpecForeach == Init /\ [][NextForeach]_vars

(***************************************************************************)
(* What the map holds, read off the chains themselves.                     *)
(***************************************************************************)
Buckets == 0..(num_bucket - 1)
ChainOf(i) == bucket[i].list.elems
Entries == UNION {{ChainOf(i)[j] : j \in DOMAIN ChainOf(i)} : i \in Buckets}

RECURSIVE CountFrom(_)
CountFrom(i) == IF i >= num_bucket THEN 0 ELSE Len(ChainOf(i)) + CountFrom(i + 1)
EntryCount == CountFrom(0)

Present(k) == \E e \in Entries : KeysAreEqual(e.key, k)
EntryFor(k) == CHOOSE e \in Entries : KeysAreEqual(e.key, k)
BucketOf(k) == HashFn(k) % num_bucket

IsHook(c) == c.fn \in {"key_fn", "data_fn"}
HookCalls(calls) == SelectSeq(calls, IsHook)
HooksFor(e) ==
  (IF key_fn THEN <<Call("key_fn", e.key, e.rec)>> ELSE <<>>)
  \o (IF data_fn THEN <<Call("data_fn", e.data, e.rec)>> ELSE <<>>)
Count(calls, c) == Cardinality({i \in DOMAIN calls : calls[i] = c})
HooksConfigured == (IF key_fn THEN 1 ELSE 0) + (IF data_fn THEN 1 ELSE 0)

\* C1: in every reachable state, the counter hash_map_size returns equals the
\* number of entries held across all bucket chains.
C1_SizeEqualsEntryCount == hash_map_size = EntryCount

\* C2: after hash_map_clear the map is like a freshly constructed one: size 0,
\* is_empty true, and no bucket has a chain.
C2_ClearLikeFresh ==
  last.op = "clear" =>
    /\ hash_map_size = 0
    /\ hash_map_is_empty
    /\ \A i \in Buckets : bucket[i].list = NoList

\* C3: after successful sets of pairwise distinct keys on a fresh map, size is
\* the number of keys inserted and has_key is true of exactly those keys.
C3_DistinctSets ==
  /\ hash_map_size = Cardinality(inserted)
  /\ \A k \in Keys :
       hash_map_has_key(k) <=> \E j \in inserted : KeysAreEqual(j, k)

C3_Witness ==
  /\ Cardinality(inserted) >= 2
  /\ \E i \in Buckets : Len(ChainOf(i)) >= 2
  /\ hash_map_size = Cardinality(inserted)

\* C4: a successful set of a key already present makes get return the new data,
\* leaves size unchanged, and calls the configured hooks once each, on the
\* replaced entry's key and data and on nothing else.
C4_SetReplaces ==
  [][\A k \in Keys, d \in Data :
       (last'.op = "set" /\ last'.key = k /\ last'.data = d /\ last'.ret
          /\ Present(k))
       => /\ hash_map_get(k)' = d
          /\ hash_map_size' = hash_map_size
          /\ HookCalls(last'.calls) = HooksFor(EntryFor(k))]_vars

C4_Witness ==
  /\ last.op = "set" /\ last.ret
  /\ key_fn /\ data_fn
  /\ Len(HookCalls(last.calls)) = 2
  /\ HookCalls(last.calls)[2].arg # last.data
  /\ hash_map_get(last.key) = last.data

\* C5: a pair stored by a successful set is what get returns, through every
\* later call that neither sets nor erases that key nor clears the map.
Touches(k) ==
  \/ last.op \in {"clear", "free"}
  \/ last.op \in {"set", "erase"} /\ KeysAreEqual(last.key, k)

C5_RoundTrip ==
  [][\A k \in Keys :
       /\ (last'.op = "set" /\ last'.ret /\ KeysAreEqual(last'.key, k))
            => hash_map_get(k)' = last'.data
       /\ (Present(k) /\ ~Touches(k)')
            => hash_map_get(k)' = hash_map_get(k)]_vars

C5_Witness ==
  /\ last.op = "erase" /\ last.ret
  /\ \E k \in Keys :
       /\ BucketOf(k) = BucketOf(last.key)
       /\ Present(k)
       /\ hash_map_get(k) = EntryFor(k).data

\* C6: erase of a present key returns true, decreases size by one, makes
\* has_key false for the key, and calls the configured hooks once each for
\* that entry.
C6_ErasePresent ==
  [][\A k \in Keys :
       (last'.op = "erase" /\ last'.key = k /\ Present(k))
       => /\ last'.ret
          /\ hash_map_size' = hash_map_size - 1
          /\ ~hash_map_has_key(k)'
          /\ HookCalls(last'.calls) = HooksFor(EntryFor(k))]_vars

C6_Witness ==
  /\ last.op = "erase" /\ last.ret
  /\ key_fn /\ data_fn
  /\ Len(HookCalls(last.calls)) = 2
  /\ ~hash_map_has_key(last.key)
  /\ EntryCount >= 1

\* C7: erase of an absent key returns false and changes nothing: same size,
\* same chains and entries, no hook called.
C7_EraseAbsent ==
  [][\A k \in Keys :
       (last'.op = "erase" /\ last'.key = k /\ ~Present(k))
       => /\ ~last'.ret
          /\ UNCHANGED <<bucket, hash_size, allocated>>
          /\ last'.calls = <<>>]_vars

C7_Witness ==
  /\ last.op = "erase" /\ ~last.ret
  /\ ChainOf(BucketOf(last.key)) # <<>>
  /\ \E i \in Buckets : bucket[i].list = NoList

\* C8: no two entries, in one chain or across chains, have keys equal under
\* the configured predicate.
C8_KeysUnique ==
  \A i \in Buckets, j \in Buckets :
    \A a \in DOMAIN ChainOf(i), b \in DOMAIN ChainOf(j) :
      (i # j \/ a # b) => ~KeysAreEqual(ChainOf(i)[a].key, ChainOf(j)[b].key)

C8_Witness ==
  /\ last.op = "set" /\ last.ret
  /\ \E n \in DOMAIN last.calls : last.calls[n].fn = "free"
  /\ \E i \in Buckets : Len(ChainOf(i)) >= 2

\* C9: clear calls the configured hooks once each for every entry that was
\* present, and afterwards has_key is false and get absent for each such key.
C9_ClearHooks ==
  [][last'.op = "clear" =>
       /\ \A e \in Entries :
            /\ Count(last'.calls, Call("key_fn", e.key, e.rec))
                 = (IF key_fn THEN 1 ELSE 0)
            /\ Count(last'.calls, Call("data_fn", e.data, e.rec))
                 = (IF data_fn THEN 1 ELSE 0)
       /\ Len(HookCalls(last'.calls)) = EntryCount * HooksConfigured
       /\ \A k \in Keys :
            Present(k) => (~hash_map_has_key(k)' /\ hash_map_get(k)' = NULL)]_vars

C9_Witness ==
  /\ last.op = "clear"
  /\ key_fn /\ data_fn
  /\ Len(HookCalls(last.calls)) >= 4
  /\ \A k \in Keys : ~hash_map_has_key(k)

\* C10: a set that fails because the chain of a bucket without one cannot be
\* allocated returns false and changes nothing: counter, chains (the bucket
\* still has none) and entries are as before, and no hook is called.
C10_ChainAllocFails ==
  [][\A k \in Keys :
       (last'.op = "set" /\ last'.key = k /\ last'.fail = "list_new")
       => /\ ~last'.ret
          /\ UNCHANGED <<bucket, hash_size, allocated>>
          /\ bucket'[BucketOf(k)].list = NoList
          /\ last'.calls = <<>>]_vars

C10_Witness ==
  /\ last.op = "set" /\ last.fail = "list_new" /\ ~last.ret
  /\ bucket[BucketOf(last.key)].list = NoList
  /\ EntryCount >= 1

\* The keys a map state holds, each with its data, as get reports them.
Contents == [k \in Keys |-> hash_map_get(k)]

\* C11: a set that returns false changes nothing but possibly the counter:
\* the keys present, their data and the hooks invoked are as before the call,
\* also when the key was already present.
C11_FailedSetNoSideEffect ==
  [][(last'.op = "set" /\ ~last'.ret)
       => /\ Contents' = Contents
          /\ \A k \in Keys : Present(k)' = Present(k)
          /\ HookCalls(last'.calls) = <<>>]_vars

\* Every entry held, bucket by bucket in ascending order, each chain in order.
RECURSIVE EntriesFrom(_)
EntriesFrom(i) ==
  IF i >= num_bucket THEN <<>> ELSE ChainOf(i) \o EntriesFrom(i + 1)
EntriesInOrder == EntriesFrom(0)

VisitOf(e) == Call("callback", e.key, e.rec)
Visits(entries) == [n \in DOMAIN entries |-> VisitOf(entries[n])]
NotEqualTo(chain, k) == SelectSeq(chain, LAMBDA e : ~KeysAreEqual(e.key, k))

\* C12: foreach calls the callback on every entry once, buckets ascending and
\* each chain in the order set installed its entries, when the callback always
\* returns true; once the callback returns false nothing later is visited.
C12_ForeachOrder ==
  [][/\ \A s \in Keys \cup {NULL} :
          (last'.op = "foreach" /\ last'.key = s)
          => LET all == EntriesInOrder
                 stops == {n \in DOMAIN all : all[n].key = s}
             IN  IF stops = {}
                 THEN last'.calls = Visits(all)
                 ELSE \E n \in stops :
                        /\ \A m \in stops : n <= m
                        /\ last'.calls = Visits(SubSeq(all, 1, n))
     /\ \A k \in Keys, d \in Data :
          (last'.op = "set" /\ last'.ret /\ last'.key = k /\ last'.data = d)
          => \A i \in Buckets :
               IF i = BucketOf(k)
               THEN /\ ChainOf(i)' # <<>>
                    /\ SubSeq(ChainOf(i)', 1, Len(ChainOf(i)') - 1)
                         = NotEqualTo(ChainOf(i), k)
                    /\ ChainOf(i)'[Len(ChainOf(i)')].key = k
                    /\ ChainOf(i)'[Len(ChainOf(i)')].data = d
               ELSE ChainOf(i)' = ChainOf(i)
     /\ \A k \in Keys :
          (last'.op = "erase" /\ last'.key = k)
          => \A i \in Buckets : ChainOf(i)' = NotEqualTo(ChainOf(i), k)]_vars

C12_Witness ==
  /\ last.op = "foreach"
  /\ EntryCount = 2
  /\ \E i \in Buckets : Len(ChainOf(i)) = 2
  /\ Len(last.calls) = 1
  /\ last.calls[1] = VisitOf(EntriesInOrder[1])


\* The records a call obtained, and what it called to clean entries up.
AllocatedIn(calls) ==
  {calls[i].rec : i \in {j \in DOMAIN calls : calls[j].fn = "alloc"}} \ {NULL}
IsCleanup(c) == c.fn \in {"key_fn", "data_fn", "free"}
CleanupCalls(calls) == SelectSeq(calls, IsCleanup)
CleanupOf(e) == HooksFor(e) \o <<Call("free", e.rec, e.rec)>>
CallsFor(calls, rec) == SelectSeq(calls, LAMBDA c : c.rec = rec)

\* C13: every entry that leaves the map, by erase, overwrite, clear or free,
\* has the key hook (if configured) called on its key, then the data hook (if
\* configured) on its data, then its record released, each exactly once; no
\* hook is called for an entry that stays, and free leaves no entry.
C13_CleanupProtocol ==
  [][LET kept == {e \in Entries' : e.rec \notin AllocatedIn(last'.calls)}
         left == Entries \ kept
         log == CleanupCalls(last'.calls)
     IN  /\ \A e \in left : CallsFor(log, e.rec) = CleanupOf(e)
         /\ \A n \in DOMAIN log : \E e \in left : log[n].rec = e.rec
         /\ last'.op = "free" => Entries' = {}]_vars

C13_Witness ==
  /\ last.op = "free"
  /\ key_fn /\ data_fn
  /\ Len(last.calls) = 6
  /\ last.calls[1].fn = "key_fn" /\ last.calls[2].fn = "data_fn"
  /\ last.calls[3].fn = "free"
  /\ ~live


\* C14: get and has_key change nothing (counter, chains, entries, records)
\* and call nothing; get returns the stored data exactly when has_key is true,
\* and nothing otherwise.
C14_LookupReadOnly ==
  [][\A k \in Keys :
       /\ (last'.op \in {"get", "has_key"} /\ last'.key = k)
            => /\ UNCHANGED <<bucket, hash_size, allocated, live>>
               /\ last'.calls = <<>>
       /\ (last'.op = "get" /\ last'.key = k)
            => /\ last'.data # NULL <=> hash_map_has_key(k)
               /\ last'.data = IF Present(k) THEN EntryFor(k).data ELSE NULL
       /\ (last'.op = "has_key" /\ last'.key = k)
            => last'.ret = Present(k)]_vars

C14_Witness ==
  /\ last.op = "get"
  /\ last.data # NULL
  /\ \E k \in Keys : ~hash_map_has_key(k) /\ ChainOf(BucketOf(k)) # <<>>
  /\ hash_map_get(last.key) = last.data


\* C15: keys that collide into one bucket are each stored and retrievable with
\* their own data, and an erase or a set of one key leaves has_key and get of
\* every other key as they were, those of the same chain included.
C15_CollisionIsolation ==
  [][/\ \A e \in Entries' :
          hash_map_has_key(e.key)' /\ hash_map_get(e.key)' = e.data
     /\ \A k \in Keys :
          (last'.op \in {"erase", "set"} /\ last'.key = k)
          => \A j \in Keys :
               ~KeysAreEqual(j, k)
               => /\ hash_map_has_key(j)' = hash_map_has_key(j)
                  /\ hash_map_get(j)' = hash_map_get(j)]_vars

C15_Witness ==
  /\ last.op = "set" /\ last.ret
  /\ \E n \in DOMAIN last.calls : last.calls[n].fn = "free"
  /\ \E j \in Keys :
       /\ j # last.key
       /\ BucketOf(j) = BucketOf(last.key)
       /\ hash_map_get(j) \notin {NULL, last.data}
  /\ hash_map_get(last.key) = last.data


\* C16: with the equality predicate omitted, two distinct key references that
\* are value-equal are different keys: setting the second on a map holding only
\* the first yields size 2, and each is retrievable with its own data, whether
\* or not they hash to the same bucket.
C16_IdentityEquality ==
  [][keys_are_equal = "default_key_equality"
     => \A j \in Keys, k \in Keys, d \in Data :
          (/\ last'.op = "set" /\ last'.ret /\ last'.key = k /\ last'.data = d
           /\ j # k /\ value_equality(j, k)
           /\ hash_map_size = 1
           /\ Cardinality(Entries) = 1
           /\ \A e \in Entries : e.key = j)
          => /\ hash_map_size' = 2
             /\ hash_map_has_key(k)' /\ hash_map_get(k)' = d
             /\ hash_map_has_key(j)'
             /\ \A e \in Entries : hash_map_get(j)' = e.data]_vars

C16_Witness ==
  /\ keys_are_equal = "default_key_equality"
  /\ last.op = "set" /\ last.ret
  /\ hash_map_size = 2 /\ EntryCount = 2
  /\ hash_map_get(last.key) = last.data
  /\ \E j \in Keys :
       /\ j # last.key /\ value_equality(j, last.key)
       /\ BucketOf(j) = BucketOf(last.key)
       /\ hash_map_get(j) \notin {NULL, last.data}


\* C17: set returns true exactly when the pair was stored: after true, get of
\* the key returns the data given; after false, has_key of the key is false,
\* even if the key was present before the call.
C17_SetResult ==
  [][\A k \in Keys, d \in Data :
       (last'.op = "set" /\ last'.key = k /\ last'.data = d)
       => /\ last'.ret => hash_map_get(k)' = d
          /\ ~last'.ret => ~hash_map_has_key(k)' /\ ~Present(k)']_vars

C17_Witness ==
  /\ last.op = "set" /\ ~last.ret
  /\ last.fail \in {"alloc", "list_append"}
  /\ \E n \in DOMAIN last.calls : last.calls[n].fn = "free"
  /\ ~hash_map_has_key(last.key)


\* C18: in every state reached by set, erase and clear calls, allocation
\* failures included, hash_map_size is at least the number of entries held in
\* the chains and never below zero; so when hash_map_is_empty is true no key
\* is present and a foreach invokes its callback zero times.
C18_CounterNeverUndercounts ==
  live =>
    /\ hash_map_size >= EntryCount
    /\ hash_map_size >= 0
    /\ hash_map_is_empty =>
         /\ \A k \in Keys : ~hash_map_has_key(k) /\ hash_map_get(k) = NULL
         /\ \A stop_key \in Keys \cup {NULL} :
              foreach_loop(0, 1, stop_key, <<>>) = <<>>
         /\ last.op = "foreach" => last.calls = <<>>

\* A foreach on a map that held an entry, lost it, and reports empty.
C18_Witness ==
  /\ live
  /\ last.op = "foreach"
  /\ hash_map_is_empty
  /\ \E i \in Buckets : bucket[i].list # NoList


\* C19: no leak and no double release of entry records: after any set, erase
\* and clear calls, with the allocator and the list's append failing where
\* they may, every entry record hash_map_set obtained from the allocator has
\* been released exactly once by the time hash_map_free has returned.
C19_NoLeakNoDoubleRelease ==
  /\ \A e \in Entries : e.rec \in allocated
  /\ \A rec \in Recs :
       Len(SelectSeq(CallsFor(last.calls, rec),
                     LAMBDA c : c.fn = "free")) <= 1
  /\ ~live => allocated = {}

====
